---------------------------- MODULE Spec2Model ----------------------------
(***************************************************************************)
(* Model of src/b2backup.py: monthly archival backup to B2.                *)
(*                                                                         *)
(* The entry points of the program are modelled, each as its own           *)
(* specification over the same state:                                      *)
(*   Spec        verify_and_cleanup(config)                                *)
(*   SpecUpload  upload_archive_files(config)                              *)
(*   SpecGate    active_upload_period / pause_if_out_of_upload_period      *)
(*               applied to one clock reading                              *)
(*   SpecCodec   encrypt_archives(config), then decrypt_archives(config),  *)
(*               on the bytes of the files                                 *)
(*   SpecNames   the listing of upload_archive_files on part names of any  *)
(*               number of digits                                          *)
(***************************************************************************)
EXTENDS Integers, Sequences, FiniteSets, TLC

VARIABLES
    pc,             \* position of the single thread of control
    auth_token,     \* config['auth_token']: 0 = none, n = token of the n-th authorize
    local,          \* files of config['backup_directory']
    remote,         \* B2 bucket: number of stored versions of each file name
    vol,            \* index into config['volumes'] of the running for-loop
    verify_result,  \* return value of verify_uploaded_files: "none", "true", "false"
    listing,        \* what b2_list_files returned for each volume during the verify
    local0,         \* the directory when the run began
    remote0,        \* the bucket when the run began
    now,            \* last reading of datetime.now()
    window,         \* result of the last active_upload_period call
    gate,           \* result of the last pause_if_out_of_upload_period call
    disable_pause,  \* the disable_pause argument of upload_archive_files
    parts,          \* file_part_names the inner for-loop has yet to take
    i,              \* loop variable of upload_archive_file_part
    target,         \* upload_url, upload_auth_token: 0 = None, n = got in the n-th iteration
    ret,            \* return value of the last upload_archive_file_part: "none", "true", "false"
    attempts,       \* iterations this upload_archive_file_part call has begun
    sleeps,         \* arguments of the time.sleep calls of this upload_archive_file_part call
    wins,           \* uploads of this call answered with status 200
    accepts,        \* uploads of this call the bucket stored
    used,           \* target the last b2_upload_file call posted to
    invoked,        \* <<volume, file>> of every upload_archive_file_part call, in order
    token_valid,    \* B2 still honours auth_token
    rejected_token, \* last auth_token a request was refused for (0 = none)
    stale_token,    \* auth_token held during the last pause (0 = none)
    gated,          \* the gate was called for the part at hand
    lost,           \* responses lost after the bucket had stored the upload
    secret_key,     \* config['secret_key']
    encrypted_file_part_size, \* config['encrypted_file_part_size']
    archive_file,   \* f"{thismonth}-{volume}.tar.gz" of each volume: its bytes
    part_file,      \* the .enc.partNNN files of each volume with their .sha1 files
    part_number,    \* part_number of encrypt_archives and decrypt_archives
    tell,           \* volume_file_mmap.tell()
    error,          \* the exception that ended the run, and the part number it names
    source,         \* the bytes encrypt_archives read of each volume
    emitted,        \* plaintext of the parts encrypt_archives wrote, in order
    written,        \* the bytes decrypt_archives wrote for each volume, in order
    opened          \* the part numbers decrypt_archives opened for each volume

cleanupVars == <<verify_result, listing>>
clockVars == <<now, window, gate>>
callVars == <<i, target, ret, attempts, sleeps, wins, accepts, used>>
sessionVars == <<token_valid, rejected_token, stale_token>>
uploadVars == <<disable_pause, parts, callVars, invoked, sessionVars, gated, lost>>
codecVars == <<secret_key, encrypted_file_part_size, archive_file, part_file,
               part_number, tell, error, source, emitted, written, opened>>
vars == <<pc, auth_token, local, remote, vol, verify_result, listing,
          local0, remote0, now, window, gate, uploadVars, codecVars>>

(***************************************************************************)
(* Program constants (src/b2backup.py lines 29-34).                        *)
(***************************************************************************)
UPLOAD_ATTEMPTS == 6
BACKOFF_MODIFIER == 225
ACTIVE_PERIOD_BEGIN_HOUR == 20
ACTIVE_PERIOD_END_HOUR == 8
ESTIMATED_UPLOAD_TIME == 30

(***************************************************************************)
(* datetime: the proleptic Gregorian calendar of Python's datetime.        *)
(* An instant is [year, month, day, hour, minute, second, frac]; frac = 1  *)
(* stands for a non-zero microsecond field (datetime.now() has one),       *)
(* frac = 0 for microsecond = 0.                                           *)
(***************************************************************************)
IsLeap(y) == (y % 4 = 0) /\ ((y % 100 # 0) \/ (y % 400 = 0))

DaysInMonth(y, m) ==
    IF m = 2 THEN (IF IsLeap(y) THEN 29 ELSE 28)
    ELSE IF m \in {4, 6, 9, 11} THEN 30 ELSE 31

\* datetime(year, month, day, hour) raises ValueError unless the day exists.
ValidDate(y, m, d) == (m \in 1..12) /\ (d >= 1) /\ (d <= DaysInMonth(y, m))

datetime(y, m, d, h) ==
    [year |-> y, month |-> m, day |-> d, hour |-> h,
     minute |-> 0, second |-> 0, frac |-> 0]

\* Days from the start of the year to the start of month m.
RECURSIVE DaysBeforeMonth(_, _)
DaysBeforeMonth(y, m) ==
    IF m = 1 THEN 0 ELSE DaysBeforeMonth(y, m - 1) + DaysInMonth(y, m - 1)

\* The calendar years the clock readings are drawn from.
Years == {2023, 2024}

RECURSIVE DaysBeforeYear(_)
DaysBeforeYear(y) ==
    IF \A z \in Years : y <= z THEN 0
    ELSE DaysBeforeYear(y - 1) + (IF IsLeap(y - 1) THEN 366 ELSE 365)

\* Whole seconds since the start of the first of Years (the microseconds are in frac).
Seconds(t) ==
    ((DaysBeforeYear(t.year) + DaysBeforeMonth(t.year, t.month) + (t.day - 1)) * 24
        + t.hour) * 3600 + t.minute * 60 + t.second

\* datetime comparison: a < b, a <= b.
Before(a, b) ==
    \/ Seconds(a) < Seconds(b)
    \/ (Seconds(a) = Seconds(b) /\ a.frac < b.frac)

NotAfter(a, b) == Before(a, b) \/ (Seconds(a) = Seconds(b) /\ a.frac = b.frac)

\* The day after (y, m, d).
NextDay(y, m, d) ==
    IF d < DaysInMonth(y, m) THEN [year |-> y, month |-> m, day |-> d + 1]
    ELSE IF m < 12 THEN [year |-> y, month |-> m + 1, day |-> 1]
    ELSE [year |-> y + 1, month |-> 1, day |-> 1]

\* t + timedelta(seconds = n), for 0 <= n < 86400.
PlusSeconds(t, n) ==
    LET s   == t.hour * 3600 + t.minute * 60 + t.second + n
        d   == IF s >= 86400 THEN NextDay(t.year, t.month, t.day)
               ELSE [year |-> t.year, month |-> t.month, day |-> t.day]
        r   == s % 86400
    IN  [year |-> d.year, month |-> d.month, day |-> d.day,
         hour |-> r \div 3600, minute |-> (r % 3600) \div 60,
         second |-> r % 60, frac |-> t.frac]

\* (a - b).seconds: timedelta normalises to days, 0 <= seconds < 86400 and
\* 0 <= microseconds < 10^6, so a non-zero fraction of b borrows one second.
DeltaSeconds(a, b) ==
    LET whole == Seconds(a) - Seconds(b) - (IF a.frac < b.frac THEN 1 ELSE 0)
    IN  whole % 86400

(***************************************************************************)
(* active_upload_period(check_time), lines 339-350.  The result is         *)
(* [raised |-> TRUE] when a datetime constructor raises ValueError, and    *)
(* [raised |-> FALSE, value |-> b] when the function returns b.            *)
(***************************************************************************)
Raised == [raised |-> TRUE, value |-> FALSE]
Returned(b) == [raised |-> FALSE, value |-> b]

active_upload_period(check_time) ==
    LET y == check_time.year
        m == check_time.month
        begin_day == IF check_time.hour >= ACTIVE_PERIOD_BEGIN_HOUR
                     THEN check_time.day
                     ELSE check_time.day - 1
    IN  IF ~ValidDate(y, m, begin_day) THEN Raised
        ELSE IF ~ValidDate(y, m, begin_day + 1) THEN Raised
        ELSE LET active_period_begin == datetime(y, m, begin_day, ACTIVE_PERIOD_BEGIN_HOUR)
                 active_period_end == datetime(y, m, begin_day + 1, ACTIVE_PERIOD_END_HOUR)
             IN  Returned(NotAfter(active_period_begin, check_time)
                          /\ Before(check_time, active_period_end))

(***************************************************************************)
(* pause_if_out_of_upload_period(), lines 352-362, when datetime.now()     *)
(* reads t.  The result is [raised, value, at, slept, wake]: at is the     *)
(* clock reading, slept the argument of time.sleep (-1 when it is not      *)
(* called) and wake the instant the function is left.                      *)
(***************************************************************************)
GateResult(r, v, t, s, w) ==
    [raised |-> r, value |-> v, at |-> t, slept |-> s, wake |-> w]

\* Mutant: the gate never pauses.
pause_never(t) == GateResult(FALSE, FALSE, t, -1, t)

pause_if_out_of_upload_period(t) ==
    LET active == active_upload_period(PlusSeconds(t, ESTIMATED_UPLOAD_TIME * 60))
    IN  IF active.raised THEN GateResult(TRUE, FALSE, t, -1, t)
        ELSE IF ~active.value
             THEN LET s == DeltaSeconds(
                               datetime(t.year, t.month, t.day, ACTIVE_PERIOD_BEGIN_HOUR), t)
                  IN  GateResult(FALSE, TRUE, t, s, PlusSeconds(t, s))
             ELSE GateResult(FALSE, FALSE, t, -1, t)

(***************************************************************************)
(* Configuration and file names.                                           *)
(*                                                                         *)
(* A file of the backup directory is [date, volume, kind, part]:           *)
(*   kind "archive"  {date}-{volume}.tar.gz                  (part = 0)    *)
(*   kind "part"     {date}-{volume}.tar.gz.enc.part{part:03d}             *)
(*   kind "sha1"     {date}-{volume}.tar.gz.enc.part{part:03d}.sha1        *)
(* Volume names are plain words (no regular-expression metacharacters, no  *)
(* name containing another), so a pattern built from a volume name matches *)
(* the files of that volume only.                                          *)
(***************************************************************************)
\* config['volumes'], in the order of the configuration file.
volumes == <<"v1", "v2">>
Volumes == {volumes[k] : k \in 1..Len(volumes)}

\* THISMONTH and THREE_MONTHS_AGO for a run in March 2024 (lines 24-25), and
\* the period tags of a run in between and of a run before, which no stage
\* of this run names.
THISMONTH == "20240301"
THREE_MONTHS_AGO == "20231201"
LASTMONTH == "20240201"
FOUR_MONTHS_AGO == "20231101"
Dates == <<FOUR_MONTHS_AGO, THREE_MONTHS_AGO, LASTMONTH, THISMONTH>>

\* Largest part number of a volume in the modelled directories and buckets.
MaxParts == 2

File(d, v, k, n) == [date |-> d, volume |-> v, kind |-> k, part |-> n]
Archive(d, v) == File(d, v, "archive", 0)
Part(d, v, n) == File(d, v, "part", n)
Sha1(d, v, n) == File(d, v, "sha1", n)

\* What encrypt_archives leaves for an archive of n parts (lines 178-184).
EncryptedParts(d, v, n) ==
    {Part(d, v, k) : k \in 1..n} \cup {Sha1(d, v, k) : k \in 1..n}

\* The decimal digits of n, zero-padded to three: f"{part_number:03d}".
RECURSIVE Decimal(_)
Decimal(n) == IF n < 10 THEN <<n>> ELSE Append(Decimal(n \div 10), n % 10)

PartDigits(n) ==
    LET d == Decimal(n)
    IN  IF Len(d) >= 3 THEN d ELSE [k \in 1..(3 - Len(d)) |-> 0] \o d

\* The part of a file name after "{date}-{volume}.tar.gz", as character ranks:
\* "." ranks below every digit, and the fixed text between is the same for all.
Suffix(f) ==
    IF f.kind = "archive" THEN <<>>
    ELSE IF f.kind = "part" THEN [k \in 1..Len(PartDigits(f.part)) |-> PartDigits(f.part)[k] + 1]
    ELSE [k \in 1..Len(PartDigits(f.part)) |-> PartDigits(f.part)[k] + 1] \o <<0>>

\* Python's str comparison on sequences of character ranks.
RECURSIVE LexLess(_, _)
LexLess(a, b) ==
    IF b = <<>> THEN FALSE
    ELSE IF a = <<>> THEN TRUE
    ELSE IF Head(a) # Head(b) THEN Head(a) < Head(b)
    ELSE LexLess(Tail(a), Tail(b))

Index(seq, x) == CHOOSE k \in 1..Len(seq) : seq[k] = x

\* filename order of sorted(os.listdir(directory)) (line 153).
NameLess(f, g) ==
    IF f.date # g.date THEN Index(Dates, f.date) < Index(Dates, g.date)
    ELSE IF f.volume # g.volume THEN Index(volumes, f.volume) < Index(volumes, g.volume)
    ELSE LexLess(Suffix(f), Suffix(g))

RECURSIVE Sorted(_)
Sorted(S) ==
    IF S = {} THEN <<>>
    ELSE LET m == CHOOSE x \in S : \A y \in S \ {x} : NameLess(x, y)
         IN  <<m>> \o Sorted(S \ {m})

Range(seq) == {seq[k] : k \in 1..Len(seq)}

\* Every file name of the modelled directories.
AllFiles ==
    {File(d, v, k, n) : d \in Range(Dates), v \in Volumes,
                        k \in {"part", "sha1"}, n \in 1..MaxParts}
    \cup {Archive(d, v) : d \in Range(Dates), v \in Volumes}

\* list_files_matching(match_pattern, directory), lines 149-157; a pattern is
\* given as the set of file names re.search accepts.
list_files_matching(match_pattern, directory) ==
    Sorted({f \in directory : f \in match_pattern})

\* rf"{thismonth}-{volume}\.tar\.gz\.enc.part\d+$" (lines 393 and 409).
PartPattern(d, v) ==
    {f \in AllFiles : f.date = d /\ f.volume = v /\ f.kind = "part"}

\* rf"{date}-({'|'.join(volumes)})\.tar\.gz\.enc.part" (line 423): not anchored
\* at the end, so the .sha1 files match too.
PartsFromDatePattern(d) ==
    {f \in AllFiles : f.date = d /\ f.volume \in Volumes /\ f.kind \in {"part", "sha1"}}

\* rf"{date}-({'|'.join(volumes)})\.tar\.gz" (line 438): not anchored at the
\* end, so the archive, its parts and their .sha1 files all match.
ArchivesFromDatePattern(d) ==
    {f \in AllFiles : f.date = d /\ f.volume \in Volumes}

list_local_archive_file_parts_from_date(directory, d) ==
    list_files_matching(PartsFromDatePattern(d), directory)

list_local_archives_from_date(directory, d) ==
    list_files_matching(ArchivesFromDatePattern(d), directory)

(***************************************************************************)
(* The bucket.  A file name of the bucket is f"{volume}/{file_name}"       *)
(* (X-Bz-File-Name, line 302); every upload of a name adds a version, and  *)
(* remote[key] counts the versions of key.                                 *)
(***************************************************************************)
Key(v, f) == [volume |-> v, name |-> f]

AllKeys ==
    {Key(v, Part(d, v, n)) : v \in Volumes, d \in Range(Dates), n \in 1..MaxParts}

\* The prefix f"{volume}/{date}" of b2_list_files (lines 405 and 478).
HasPrefix(key, v, d) == key.volume = v /\ key.name.date = d

KeyLess(j, k) ==
    IF j.volume # k.volume THEN Index(volumes, j.volume) < Index(volumes, k.volume)
    ELSE NameLess(j.name, k.name)

max_file_count == 1000

\* b2_list_files(config, prefix), lines 245-270.  resp is the outcome of the
\* request: "ok" (status 200), "http_error" (any other status) or
\* "conn_error" (ConnectionError or any other exception).  The result is the
\* set of file names returned; [] is {}.
b2_list_files(resp, bucket, v, d) ==
    IF resp = "ok"
    THEN LET found == {k \in AllKeys : bucket[k] > 0 /\ HasPrefix(k, v, d)}
         IN  {k \in found : Cardinality({j \in found : KeyLess(j, k)}) < max_file_count}
    ELSE {}

ListResponses == {"ok", "http_error", "conn_error"}

(***************************************************************************)
(* verify_uploaded_files(config), lines 401-418: the body of its loop for  *)
(* one volume, on the files b2_list_files returned.  FALSE is the early    *)
(* "return False" of lines 408 and 417.                                    *)
(***************************************************************************)
\* Mutant: the empty listing is not told apart from a listing with every part.
volume_verified_no_empty_check(v, directory, files) ==
    LET names == list_files_matching(PartPattern(THISMONTH, v), directory)
    IN  \A n \in 1..Len(names) : \E file_info \in files : file_info = Key(v, names[n])

volume_verified(v, directory, files) ==
    LET names == list_files_matching(PartPattern(THISMONTH, v), directory)
    IN  IF files = {} THEN FALSE
        ELSE \A n \in 1..Len(names) : \E file_info \in files : file_info = Key(v, names[n])

(***************************************************************************)
(* b2_authorize_account(config), lines 228-243.  resp is the outcome of    *)
(* requests.get: "ok" (status 200), "rejected" (any other status:          *)
(* sys.exit(1)) or "conn_error" (the exception is not caught).  Gives the  *)
(* next position and the new token.                                        *)
(***************************************************************************)
AuthResponses == {"ok", "rejected", "conn_error"}

b2_authorize_account(resp, token, continue_at) ==
    IF resp = "ok" THEN [pc |-> continue_at, auth_token |-> token + 1]
    ELSE IF resp = "rejected" THEN [pc |-> "exit_auth", auth_token |-> token]
    ELSE [pc |-> "crash_auth", auth_token |-> token]

(***************************************************************************)
(* Deleting.                                                               *)
(***************************************************************************)
\* delete_current_local_archive_file_parts(config), lines 429-433.
delete_current_local_archive_file_parts(directory) ==
    directory \ Range(list_local_archive_file_parts_from_date(directory, THISMONTH))

\* Mutant: the files of the current period are taken for the old ones.
delete_old_local_archive_files_this_month(directory) ==
    directory \ Range(list_local_archives_from_date(directory, THISMONTH))

\* delete_old_local_archive_files(config), lines 444-448.
delete_old_local_archive_files(directory) ==
    directory \ Range(list_local_archives_from_date(directory, THREE_MONTHS_AGO))

\* b2_delete_file for every name of deleted (lines 450-471, status 200):
\* b2_delete_file_version removes the one version the listing named.
b2_delete_files(bucket, deleted) ==
    [k \in AllKeys |-> IF k \in deleted THEN bucket[k] - 1 ELSE bucket[k]]

\* Mutant: the parts are deleted whatever the verify returned.
after_verify_always_prune(result) == "vc_prune_current"

\* The step verify_and_cleanup takes on the result of the verify (lines 490-493).
after_verify(result) == IF result THEN "vc_prune_current" ELSE "vc_delete_old"

(***************************************************************************)
(* File contents: the archives and their encrypted parts (lines 166-226).  *)
(***************************************************************************)
\* Longest archive, in bytes, and largest encrypted_file_part_size of a run.
MaxLen == 3
MaxChunk == 2

Bytes == {0, 1}
ByteStrings == UNION {[1..n -> Bytes] : n \in 0..MaxLen}

\* Values of config['secret_key'], and the nonces nacl.utils.random draws.
Keys == {1, 2}
Nonces == {0, 1}

\* nacl.secret.SecretBox: XSalsa20 adds a key stream of (key, nonce) to the
\* plaintext, and Poly1305 tags the result; two tags are equal only for the
\* same key, nonce and body.
Xor(a, b) == (a + b) % 2
Pad(key, nonce, j) == (key + nonce + j) % 2
Mac(key, nonce, body) == <<key, nonce, body>>

\* box.encrypt(plaintext) under a nonce (lines 175-177): nonce, tag and body
\* together are the part's contents.
encrypt(key, nonce, plaintext) ==
    LET body == [j \in 1..Len(plaintext) |-> Xor(plaintext[j], Pad(key, nonce, j))]
    IN  [nonce |-> nonce, mac |-> Mac(key, nonce, body), body |-> body]

\* box.decrypt(ciphertext) (lines 208-209): CryptoError when the tag does not
\* verify under the key.
decrypt(key, c) ==
    IF c.mac # Mac(key, c.nonce, c.body)
    THEN [raised |-> TRUE, value |-> <<>>]
    ELSE [raised |-> FALSE,
          value |-> [j \in 1..Len(c.body) |-> Xor(c.body[j], Pad(key, c.nonce, j))]]

\* checksum(byte_string), lines 224-226: two digests are equal only for the
\* same bytes.
checksum(byte_string) == [sha1 |-> byte_string]

NoFile == [exists |-> FALSE, bytes |-> <<>>]
NoCipher == [nonce |-> 0, mac |-> <<>>, body |-> <<>>]
\* A part number with neither the part file nor its .sha1 file.
NoPartFile == [exists |-> FALSE, cipher |-> NoCipher, sha1 |-> checksum(NoCipher)]
NoParts == [n \in 1..MaxLen |-> NoPartFile]

\* Mutant: a later part stands in for a missing one.
isfile_or_later(files, n) == \E m \in DOMAIN files : m >= n /\ files[m].exists

\* os.path.isfile of the part file numbered n (line 204).
isfile(files, n) == n \in DOMAIN files /\ files[n].exists

\* Mutant: the read takes everything up to the end of the file.
read_to_end(bytes, pos, size) == SubSeq(bytes, pos + 1, Len(bytes))

\* volume_file_mmap.read(size) at position pos (line 177).
read(bytes, pos, size) ==
    SubSeq(bytes, pos + 1, IF pos + size < Len(bytes) THEN pos + size ELSE Len(bytes))

\* A part file and its .sha1 file as lines 178-184 write them.
PartFileOf(c) == [exists |-> TRUE, cipher |-> c, sha1 |-> checksum(c)]

\* An exception that ends the run; part is the part number its message
\* names, 0 when it names none.
Exception(type, part) == [type |-> type, part |-> part]
NoError == Exception("none", 0)

\* Neither encrypt_archives nor decrypt_archives is running.
NoCodec ==
    /\ secret_key = 1
    /\ encrypted_file_part_size = 1
    /\ archive_file = [v \in Volumes |-> NoFile]
    /\ part_file = [v \in Volumes |-> NoParts]
    /\ part_number = 1
    /\ tell = 0
    /\ error = NoError
    /\ source = [v \in Volumes |-> <<>>]
    /\ emitted = [v \in Volumes |-> <<>>]
    /\ written = [v \in Volumes |-> <<>>]
    /\ opened = [v \in Volumes |-> <<>>]

(***************************************************************************)
(* Directories and buckets a run can find.                                 *)
(***************************************************************************)
\* Old-period files of a volume left in the directory: nothing, the archive,
\* or the archive with its encrypted parts and the archive of the month
\* before, which no cleanup has removed.
OldChoices == {"none", "archive", "all"}

OldFiles(v, choice) ==
    IF choice = "none" THEN {}
    ELSE IF choice = "archive" THEN {Archive(THREE_MONTHS_AGO, v)}
    ELSE {Archive(THREE_MONTHS_AGO, v), Archive(FOUR_MONTHS_AGO, v)}
         \cup EncryptedParts(THREE_MONTHS_AGO, v, 1)

\* n[v] current parts of volume v (0 after an earlier cleanup), the archives
\* of this and of last month, and the old files chosen.
Directory(n, old) ==
    UNION {EncryptedParts(THISMONTH, v, n[v])
           \cup {Archive(THISMONTH, v), Archive(LASTMONTH, v)}
           \cup OldFiles(v, old[v]) : v \in Volumes}

\* The current parts cur[v] of every volume, its first old part when old[v] = 1,
\* and last month's first part, one version each.
Bucket(cur, old) ==
    [k \in AllKeys |->
        IF k.name.date = THISMONTH THEN (IF k.name.part \in cur[k.volume] THEN 1 ELSE 0)
        ELSE IF k.name.date = THREE_MONTHS_AGO THEN (IF k.name.part <= old[k.volume] THEN 1 ELSE 0)
        ELSE (IF k.name.part = 1 THEN 1 ELSE 0)]

NoListing == [v \in Volumes |-> [resp |-> "none", files |-> {}]]
NoTime == datetime(2024, 3, 15, 0)
NoWindow == Returned(FALSE)
NoGate == GateResult(FALSE, FALSE, NoTime, -1, NoTime)

\* No upload_archive_files call is running.
NoUpload ==
    /\ disable_pause = FALSE
    /\ parts = <<>>
    /\ i = 0 /\ target = 0 /\ ret = "none" /\ attempts = 0 /\ sleeps = <<>>
    /\ wins = 0 /\ accepts = 0 /\ used = 0
    /\ invoked = <<>>
    /\ token_valid = FALSE /\ rejected_token = 0 /\ stale_token = 0
    /\ gated = FALSE
    /\ lost = 0

(***************************************************************************)
(* verify_and_cleanup(config), lines 486-496.                              *)
(***************************************************************************)
Init ==
    /\ pc = "vc_start"
    /\ auth_token = 0
    /\ \E n \in [Volumes -> 0..MaxParts], old \in [Volumes -> OldChoices] :
           local = Directory(n, old)
    /\ \E cur \in [Volumes -> SUBSET (1..MaxParts)], old \in [Volumes -> {0, 1}] :
           remote = Bucket(cur, old)
    /\ vol = 1
    /\ verify_result = "none"
    /\ listing = NoListing
    /\ local0 = local
    /\ remote0 = remote
    /\ now = NoTime
    /\ window = NoWindow
    /\ gate = NoGate
    /\ NoUpload
    /\ NoCodec

\* line 488
VcAuthorize ==
    /\ pc = "vc_start"
    /\ \E resp \in AuthResponses :
           LET r == b2_authorize_account(resp, auth_token, "vc_verify")
           IN  pc' = r.pc /\ auth_token' = r.auth_token
    /\ UNCHANGED <<local, remote, vol, cleanupVars, local0, remote0, codecVars, clockVars, uploadVars>>

\* line 490: verify_uploaded_files (lines 401-418), one volume per step, and
\* the branch of lines 490-493 on its result when it returns.
VcVerify ==
    /\ pc = "vc_verify"
    /\ \E resp \in ListResponses :
           LET v == volumes[vol]
               files == b2_list_files(resp, remote, v, THISMONTH)
           IN  /\ listing' = [listing EXCEPT ![v] = [resp |-> resp, files |-> files]]
               /\ IF ~volume_verified(v, local, files)
                  THEN verify_result' = "false" /\ vol' = 1 /\ pc' = after_verify(FALSE)
                  ELSE IF vol < Len(volumes)
                  THEN verify_result' = verify_result /\ vol' = vol + 1 /\ pc' = pc
                  ELSE verify_result' = "true" /\ vol' = 1 /\ pc' = after_verify(TRUE)
    /\ UNCHANGED <<auth_token, local, remote, local0, remote0, codecVars, clockVars, uploadVars>>

\* line 491
VcPruneCurrent ==
    /\ pc = "vc_prune_current"
    /\ local' = delete_current_local_archive_file_parts(local)
    /\ pc' = "vc_delete_old"
    /\ UNCHANGED <<auth_token, remote, vol, cleanupVars, local0, remote0, codecVars, clockVars, uploadVars>>

\* line 495: b2_delete_old_files (lines 473-484), one volume per step; the
\* deletions of deleted succeed and the others fail.
VcDeleteOldRemote ==
    /\ pc = "vc_delete_old"
    /\ \E resp \in ListResponses :
           LET files == b2_list_files(resp, remote, volumes[vol], THREE_MONTHS_AGO)
           IN  \E deleted \in SUBSET files : remote' = b2_delete_files(remote, deleted)
    /\ IF vol < Len(volumes)
       THEN vol' = vol + 1 /\ pc' = pc
       ELSE vol' = 1 /\ pc' = "vc_delete_old_local"
    /\ UNCHANGED <<auth_token, local, cleanupVars, local0, remote0, codecVars, clockVars, uploadVars>>

\* line 496
VcDeleteOldLocal ==
    /\ pc = "vc_delete_old_local"
    /\ local' = delete_old_local_archive_files(local)
    /\ pc' = "done"
    /\ UNCHANGED <<auth_token, remote, vol, cleanupVars, local0, remote0, codecVars, clockVars, uploadVars>>

Next ==
    \/ VcAuthorize
    \/ VcVerify
    \/ VcPruneCurrent
    \/ VcDeleteOldRemote
    \/ VcDeleteOldLocal

Spec == Init /\ [][Next]_vars

(***************************************************************************)
(* upload_archive_files(config), lines 387-399, with                       *)
(* upload_archive_file_part (lines 364-385) and the B2 calls it makes.     *)
(***************************************************************************)
\* Responses lost after the bucket stored the upload, at most, in one run.
MaxLost == 1

At(y, m, d, h, mi, fr) ==
    [year |-> y, month |-> m, day |-> d, hour |-> h, minute |-> mi,
     second |-> 0, frac |-> fr]

\* The clock readings of a run: outside the window by day, inside it by
\* night, close to its end, and on the month's last day.
UploadReadings ==
    {At(2024, 3, 15, 10, 0, 1), At(2024, 3, 15, 21, 0, 0), At(2024, 3, 16, 7, 45, 0),
     At(2024, 3, 31, 21, 0, 0)}

\* get_file_info(file_part_name, backup_directory), lines 324-337: os.stat
\* and open raise when the part or its .sha1 file is not there.
get_file_info(directory, f) ==
    IF f \in directory /\ Sha1(f.date, f.volume, f.part) \in directory
    THEN "file_info" ELSE "raised"

\* b2_get_upload_url, lines 272-295, in iteration n.  resp is the outcome of
\* the request: "ok" (status 200), "http_error" or "conn_error"; B2 answers a
\* token it no longer honours with a status other than 200.  The result is the
\* target: 0 for (None, None).
UrlResponses(valid) ==
    IF valid THEN {"ok", "http_error", "conn_error"} ELSE {"http_error", "conn_error"}

\* Mutant: the upload URL of the first iteration is handed out again.
b2_get_upload_url_cached(resp, n) == IF resp = "ok" THEN 1 ELSE 0

b2_get_upload_url(resp, n) == IF resp = "ok" THEN n ELSE 0

\* b2_upload_file, lines 297-322.  resp is the outcome of the request: "ok"
\* (status 200, the file is stored), "http_error" (any other status),
\* "conn_error" (ConnectionError, nothing stored) or "lost" (ConnectionError
\* after B2 stored the file).  TRUE is "return True".
UploadResponses == {"ok", "http_error", "conn_error", "lost"}

b2_upload_file(resp) == resp = "ok"

\* What B2 stores on an upload of key.
Stored(bucket, key, resp) ==
    IF resp \in {"ok", "lost"} THEN [bucket EXCEPT ![key] = @ + 1] ELSE bucket

\* Mutant: the backoff grows linearly.
backoff_linear(n) == BACKOFF_MODIFIER * n

\* backoff_modifier * i**2, lines 381-382.
backoff(n) == BACKOFF_MODIFIER * n * n

\* line 380
sleeps_after(n) == n < UPLOAD_ATTEMPTS - 1

\* Mutant: an upload answered with status 200 is tried again.
upload_returns_never(uploaded) == FALSE

\* line 376-377: upload_archive_file_part returns at once when b2_upload_file
\* returned True.
upload_returns(uploaded) == uploaded

\* Mutant: the token is not refreshed after a pause.
after_gate_no_refresh(paused) == "up_file_info"

\* lines 395-397: the step after the gate returned paused.
after_gate(paused) == IF paused THEN "up_reauth" ELSE "up_file_info"

\* Mutant: the run ends when a part could not be uploaded.
after_part_stop_on_failure(result, rest, v) ==
    IF result = "false" THEN "exit_upload"
    ELSE IF rest # <<>> THEN "up_gate"
    ELSE IF v < Len(volumes) THEN "up_volume" ELSE "done"

\* lines 391-399: the loops go on whatever upload_archive_file_part returned;
\* rest are the parts of the volume still to take, v the volume's number.
after_part(result, rest, v) ==
    IF rest # <<>> THEN "up_gate"
    ELSE IF v < Len(volumes) THEN "up_volume" ELSE "done"

InitUpload ==
    /\ pc = "up_start"
    /\ auth_token = 0
    /\ \E n \in [Volumes -> 0..MaxParts], unreadable \in SUBSET {Sha1(THISMONTH, volumes[1], 1)} :
           /\ \A k \in 2..Len(volumes) : n[volumes[k]] <= 1
           /\ local = Directory(n, [v \in Volumes |-> "none"]) \ unreadable
    /\ \E c \in {{}, {1}} :
           remote = Bucket([v \in Volumes |-> c], [v \in Volumes |-> 0])
    /\ vol = 1
    /\ verify_result = "none"
    /\ listing = NoListing
    /\ local0 = local
    /\ remote0 = remote
    /\ now \in {t \in UploadReadings : \A u \in UploadReadings : NotAfter(t, u)}
    /\ window = NoWindow
    /\ gate = NoGate
    /\ disable_pause \in BOOLEAN
    /\ parts = <<>>
    /\ i = 0 /\ target = 0 /\ ret = "none" /\ attempts = 0 /\ sleeps = <<>>
    /\ wins = 0 /\ accepts = 0 /\ used = 0
    /\ invoked = <<>>
    /\ token_valid = FALSE /\ rejected_token = 0 /\ stale_token = 0
    /\ gated = FALSE
    /\ lost = 0
    /\ NoCodec

\* line 389
UpAuthorize ==
    /\ pc = "up_start"
    /\ \E resp \in AuthResponses :
           LET r == b2_authorize_account(resp, auth_token, "up_volume")
           IN  pc' = r.pc /\ auth_token' = r.auth_token /\ token_valid' = (resp = "ok")
    /\ UNCHANGED <<local, remote, vol, cleanupVars, local0, remote0, codecVars, clockVars,
                   disable_pause, parts, callVars, invoked, rejected_token, stale_token,
                   gated, lost>>

\* lines 391-394: the next volume and the list of its parts
UpListVolume ==
    /\ pc = "up_volume"
    /\ parts' = list_files_matching(PartPattern(THISMONTH, volumes[vol]), local)
    /\ IF parts' # <<>> THEN pc' = "up_gate" /\ vol' = vol
       ELSE IF vol < Len(volumes) THEN pc' = pc /\ vol' = vol + 1
       ELSE pc' = "done" /\ vol' = vol
    /\ gated' = FALSE
    /\ UNCHANGED <<auth_token, local, remote, cleanupVars, local0, remote0, codecVars, clockVars,
                   disable_pause, callVars, invoked, sessionVars, lost>>

\* line 395, pause disabled: the gate is not called
UpNoGate ==
    /\ pc = "up_gate"
    /\ disable_pause
    /\ pc' = "up_file_info"
    /\ UNCHANGED <<auth_token, local, remote, vol, cleanupVars, local0, remote0, codecVars, clockVars,
                   uploadVars>>

\* line 395, pause enabled: pause_if_out_of_upload_period() at a clock reading t
UpGate ==
    /\ pc = "up_gate"
    /\ ~disable_pause
    /\ \E t \in UploadReadings :
           /\ NotAfter(now, t)
           /\ gate' = pause_if_out_of_upload_period(t)
    /\ now' = gate'.wake
    /\ gated' = TRUE
    /\ pc' = IF gate'.raised THEN "crash_gate" ELSE after_gate(gate'.value)
    /\ stale_token' = IF ~gate'.raised /\ gate'.value THEN auth_token ELSE stale_token
    /\ UNCHANGED <<auth_token, local, remote, vol, cleanupVars, local0, remote0, codecVars, window,
                   disable_pause, parts, callVars, invoked, token_valid, rejected_token, lost>>

\* line 397
UpReauthorize ==
    /\ pc = "up_reauth"
    /\ \E resp \in AuthResponses :
           LET r == b2_authorize_account(resp, auth_token, "up_file_info")
           IN  /\ pc' = r.pc /\ auth_token' = r.auth_token
               /\ token_valid' = IF resp = "ok" THEN TRUE ELSE token_valid
    /\ UNCHANGED <<local, remote, vol, cleanupVars, local0, remote0, codecVars, clockVars,
                   disable_pause, parts, callVars, invoked, rejected_token, stale_token,
                   gated, lost>>

\* lines 399 and 370: upload_archive_file_part is called and reads the part
UpGetFileInfo ==
    /\ pc = "up_file_info"
    /\ invoked' = Append(invoked, <<volumes[vol], Head(parts)>>)
    /\ pc' = IF get_file_info(local, Head(parts)) = "raised" THEN "crash_file"
             ELSE "up_get_url"
    /\ i' = 0 /\ target' = 0 /\ attempts' = 0 /\ sleeps' = <<>>
    /\ wins' = 0 /\ accepts' = 0 /\ used' = 0
    /\ UNCHANGED <<auth_token, local, remote, vol, cleanupVars, local0, remote0, codecVars, clockVars,
                   disable_pause, parts, ret, sessionVars, gated, lost>>

\* lines 371-375: the next iteration asks for an upload URL
UpGetUploadUrl ==
    /\ pc = "up_get_url"
    /\ attempts' = attempts + 1
    /\ \E resp \in UrlResponses(token_valid) :
           /\ target' = b2_get_upload_url(resp, i + 1)
           /\ pc' = IF target' # 0 THEN "up_upload" ELSE "up_backoff"
           /\ rejected_token' = IF ~token_valid /\ resp = "http_error" THEN auth_token
                                ELSE rejected_token
    /\ UNCHANGED <<auth_token, local, remote, vol, cleanupVars, local0, remote0, codecVars, clockVars,
                   disable_pause, parts, i, ret, sleeps, wins, accepts, used, invoked,
                   token_valid, stale_token, gated, lost>>

\* lines 376-377
UpUploadFile ==
    /\ pc = "up_upload"
    /\ \E resp \in UploadResponses :
           /\ resp = "lost" => lost < MaxLost
           /\ lost' = IF resp = "lost" THEN lost + 1 ELSE lost
           /\ remote' = Stored(remote, Key(volumes[vol], Head(parts)), resp)
           /\ accepts' = IF resp \in {"ok", "lost"} THEN accepts + 1 ELSE accepts
           /\ wins' = IF resp = "ok" THEN wins + 1 ELSE wins
           /\ IF upload_returns(b2_upload_file(resp))
              THEN ret' = "true" /\ pc' = "up_returned"
              ELSE ret' = ret /\ pc' = "up_backoff"
    /\ used' = target
    /\ UNCHANGED <<auth_token, local, vol, cleanupVars, local0, remote0, codecVars, clockVars,
                   disable_pause, parts, i, target, attempts, sleeps, invoked,
                   sessionVars, gated>>

\* lines 379-385: the backoff, the end of the iteration and of the loop
UpBackoff ==
    /\ pc = "up_backoff"
    /\ sleeps' = IF sleeps_after(i) THEN Append(sleeps, backoff(i)) ELSE sleeps
    /\ i' = i + 1
    /\ IF i + 1 < UPLOAD_ATTEMPTS
       THEN ret' = ret /\ pc' = "up_get_url"
       ELSE ret' = "false" /\ pc' = "up_returned"
    /\ UNCHANGED <<auth_token, local, remote, vol, cleanupVars, local0, remote0, codecVars, clockVars,
                   disable_pause, parts, target, attempts, wins, accepts, used, invoked,
                   sessionVars, gated, lost>>

\* lines 398-399 and the loop heads: the return value is not looked at
UpContinue ==
    /\ pc = "up_returned"
    /\ parts' = Tail(parts)
    /\ pc' = after_part(ret, parts', vol)
    /\ vol' = IF pc' = "up_volume" THEN vol + 1 ELSE vol
    /\ gated' = FALSE
    /\ UNCHANGED <<auth_token, local, remote, cleanupVars, local0, remote0, codecVars, clockVars,
                   disable_pause, callVars, invoked, sessionVars, lost>>

\* B2 stops honouring the token while the run has requests to make.
UpExpireToken ==
    /\ pc = "up_get_url"
    /\ token_valid
    /\ token_valid' = FALSE
    /\ UNCHANGED <<pc, auth_token, local, remote, vol, cleanupVars, local0, remote0, codecVars,
                   clockVars, disable_pause, parts, callVars, invoked, rejected_token,
                   stale_token, gated, lost>>

NextUpload ==
    \/ UpAuthorize
    \/ UpListVolume
    \/ UpNoGate
    \/ UpGate
    \/ UpReauthorize
    \/ UpGetFileInfo
    \/ UpGetUploadUrl
    \/ UpUploadFile
    \/ UpBackoff
    \/ UpContinue
    \/ UpExpireToken

SpecUpload == InitUpload /\ [][NextUpload]_vars

\* The files of the current period in a directory, and its part files of volume v.
CurrentFiles(directory) == {f \in directory : f.date = THISMONTH}
CurrentParts(directory, v) ==
    {f \in directory : f.date = THISMONTH /\ f.volume = v /\ f.kind = "part"}

(***************************************************************************)
(* Properties of upload_archive_files.                                     *)
(***************************************************************************)
\* An upload_archive_file_part call is running or has just returned.
InCall == pc \in {"up_get_url", "up_upload", "up_backoff", "up_returned"}

InvokedOnce ==
    \A m, n \in 1..Len(invoked) : invoked[m] = invoked[n] => m = n

\* C5 as stated: the bucket stores at most one upload of a part, and once it
\* has stored one, upload_archive_file_part has returned True and makes no
\* further attempt, also when the response to the stored upload was lost.
C5_AsStated ==
    /\ InvokedOnce
    /\ InCall => accepts <= 1
    /\ (InCall /\ accepts > 0) => pc = "up_returned" /\ ret = "true"

\* C5 (amended): at most one upload of a part is answered with status 200;
\* at the first such answer upload_archive_file_part returns True, with no
\* further attempt and no further sleep for the part, and no part is handed to
\* it twice; the bucket stores more uploads of a part than that only when the
\* response to a stored upload was lost as a connection error, an attempt the
\* function repeats.
C5_AtMostOneSuccess ==
    /\ InvokedOnce
    /\ InCall => wins <= 1
    /\ (InCall /\ wins > 0) =>
          /\ pc = "up_returned" /\ ret = "true"
          /\ used = attempts
          /\ Len(sleeps) = attempts - 1
    /\ InCall => accepts - wins <= lost
    /\ \A k \in AllKeys : remote[k] - remote0[k] <= 1 + lost

\* Witness of C5: the response to a stored upload was lost, the attempt was
\* repeated and answered with status 200, and the function returned True.
C5_Witness ==
    /\ pc = "up_returned"
    /\ ret = "true"
    /\ wins = 1
    /\ accepts = 2

\* Every current-period part the run found, volume by volume in file name order.
RECURSIVE PartsFrom(_)
PartsFrom(k) ==
    IF k > Len(volumes) THEN <<>>
    ELSE LET names == Sorted(CurrentParts(local0, volumes[k]))
         IN  [n \in 1..Len(names) |-> <<volumes[k], names[n]>>] \o PartsFrom(k + 1)

IsPrefix(a, b) == Len(a) <= Len(b) /\ \A n \in 1..Len(a) : a[n] = b[n]

Running ==
    pc \in {"up_start", "up_volume", "up_gate", "up_reauth", "up_file_info",
            "up_get_url", "up_upload", "up_backoff", "up_returned"}

\* C6: upload_archive_file_part is called at most once for a part, in the
\* order of the volumes and of the file names; a run that reaches its end has
\* called it for every local part of every volume, whatever the calls
\* returned; and a run ends before that only in b2_authorize_account
\* (sys.exit or an uncaught connection error), in the gate or in
\* get_file_info, never on a refused upload.
C6_FailedPartDoesNotAbort ==
    /\ InvokedOnce
    /\ IsPrefix(invoked, PartsFrom(1))
    /\ pc = "done" => invoked = PartsFrom(1)
    /\ (~Running /\ invoked # PartsFrom(1)) =>
          pc \in {"exit_auth", "crash_auth", "crash_gate", "crash_file"}
    /\ (pc = "up_returned" /\ ret = "false") => attempts = UPLOAD_ATTEMPTS

\* Witness of C6: the third and last part of the run is handed to
\* upload_archive_file_part after the call for the part before it returned False.
C6_Witness ==
    /\ pc = "up_get_url"
    /\ ret = "false"
    /\ Len(invoked) = 3
    /\ invoked = PartsFrom(1)

\* C7: when an attempt is under way, the part went through the gate unless
\* pause is disabled (and then the gate is never called and nothing sleeps),
\* and the token in use is not the one held during the last pause.
C7_GateThenRefresh ==
    /\ pc \in {"up_file_info", "up_get_url", "up_upload", "up_backoff"} =>
          /\ disable_pause \/ gated
          /\ auth_token # stale_token
          /\ auth_token > 0
    /\ disable_pause => stale_token = 0 /\ gate = NoGate /\ ~gated

\* Witness of C7: the first attempt of a part other than the run's first,
\* after the gate paused and b2_authorize_account gave a new token.
C7_Witness ==
    /\ pc = "up_get_url"
    /\ attempts = 0
    /\ Len(invoked) = 2
    /\ gated
    /\ gate.value
    /\ stale_token > 0
    /\ auth_token = stale_token + 1

\* C8: no attempt begins with a token that a request was refused for;
\* b2_authorize_account is called again first.
C8_RefreshOnRejection ==
    pc = "up_get_url" => rejected_token # auth_token

\* What holds instead: the token changes only in b2_authorize_account at the
\* start of the run and after a pause, so a token B2 stops honouring fails
\* every later get-upload-URL request until the gate pauses.
TokenOnlyFromAuthorize ==
    [][auth_token' # auth_token => pc \in {"up_start", "up_reauth"}]_vars

(***************************************************************************)
(* Properties of verify_and_cleanup.                                       *)
(***************************************************************************)
\* Every local part of volume v is named in the listing returned for v.
KeysPresent(v) ==
    \A f \in CurrentParts(local0, v) : Key(v, f) \in listing[v].files

\* The if statement of lines 490-493 is behind.
AfterVerifyBranch == pc \in {"vc_delete_old", "vc_delete_old_local", "done"}

\* C1 as stated: once the branch on the verify is taken, either some local
\* part's key is absent from its volume's listing, the verify returned false
\* and no current-period file is deleted, or every key is present, the verify
\* returned true and every current-period part is deleted.
C1_AsStated ==
    AfterVerifyBranch =>
        IF \A v \in Volumes : KeysPresent(v)
        THEN verify_result = "true" /\ \A v \in Volumes : CurrentParts(local, v) = {}
        ELSE verify_result = "false" /\ CurrentFiles(local) = CurrentFiles(local0)

\* C1 (amended): if some local part's key is absent from its volume's listing,
\* the verify returns false and no current-period file is deleted; if every key
\* is present and the listing of every volume is non-empty, the verify returns
\* true and every current-period part is deleted; and in every state a
\* current-period file is missing only if the verify returned true with every
\* volume's listing holding the keys of all its parts.
C1_VerifyGatedDeletion ==
    /\ AfterVerifyBranch =>
          /\ (\E v \in Volumes : ~KeysPresent(v))
                => verify_result = "false" /\ CurrentFiles(local) = CurrentFiles(local0)
          /\ (\A v \in Volumes : KeysPresent(v) /\ listing[v].files # {})
                => verify_result = "true" /\ \A v \in Volumes : CurrentParts(local, v) = {}
    /\ CurrentFiles(local) # CurrentFiles(local0)
          => verify_result = "true" /\ \A v \in Volumes : KeysPresent(v)

\* Witness of C1: a run that found parts of every volume, verified them and
\* deleted them.
C1_Witness ==
    /\ pc = "done"
    /\ verify_result = "true"
    /\ \A v \in Volumes : CurrentParts(local0, v) # {} /\ CurrentParts(local, v) = {}

\* C2 as stated: a run whose verify returned false removes no local file and
\* deletes no remote object.
C2_AsStated ==
    verify_result = "false" => local = local0 /\ remote = remote0

\* C2 (amended): a run whose verify returned false removes no local file and
\* no remote object of any period but the old one (THREE_MONTHS_AGO); the old
\* period's local files and remote objects are pruned all the same.
C2_FailedVerifyKeepsCurrent ==
    verify_result = "false" =>
        /\ local \subseteq local0
        /\ \A f \in local0 \ local : f.date = THREE_MONTHS_AGO
        /\ \A k \in AllKeys : remote[k] <= remote0[k]
        /\ \A k \in AllKeys : remote[k] < remote0[k] => k.name.date = THREE_MONTHS_AGO
        /\ pc = "done" => \A f \in local : f.volume \in Volumes => f.date # THREE_MONTHS_AGO

\* Witness of C2: a failed verify, after which the run has deleted an old
\* remote object and an old local file and kept the current parts.
C2_Witness ==
    /\ pc = "done"
    /\ verify_result = "false"
    /\ local # local0
    /\ remote # remote0
    /\ \E v \in Volumes : CurrentParts(local, v) # {}

\* The listing of volume v is there, non-empty, and names every local part of v.
Complete(v) ==
    /\ listing[v].resp = "ok"
    /\ listing[v].files # {}
    /\ \A f \in CurrentParts(local0, v) : Key(v, f) \in listing[v].files

\* C3: the verify returns true exactly when the listing of every configured
\* volume succeeded, is non-empty and holds the key of every local part of the
\* volume; it returns false exactly when the listing requested for some volume
\* failed, is empty or lacks the key of a local part; and a listing holds only
\* names of the bucket under the volume's current-period prefix.
C3_VerifyExact ==
    /\ verify_result = "true" <=> \A v \in Volumes : Complete(v)
    /\ verify_result = "false" <=>
          \E v \in Volumes : listing[v].resp # "none" /\ ~Complete(v)
    /\ \A v \in Volumes :
          /\ listing[v].resp \notin {"ok", "none"} => listing[v].files = {}
          /\ \A k \in listing[v].files : remote0[k] > 0 /\ HasPrefix(k, v, THISMONTH)

\* Witness of C3: the verify returned false on the second volume, whose
\* listing succeeded and is non-empty but lacks a local part.
C3_Witness ==
    /\ verify_result = "false"
    /\ Complete(volumes[1])
    /\ listing[volumes[2]].resp = "ok"
    /\ listing[volumes[2]].files # {}
    /\ \E f \in CurrentParts(local0, volumes[2]) : Key(volumes[2], f) \notin listing[volumes[2]].files

(***************************************************************************)
(* The two functions of the transfer schedule, applied to one clock        *)
(* reading.                                                                *)
(***************************************************************************)
\* The clock readings tried: every day of Years, every hour, the minutes
\* around the half hour and the hour, with and without microseconds.
ClockReadings ==
    {[year |-> y, month |-> m, day |-> d, hour |-> h, minute |-> mi,
      second |-> 0, frac |-> fr] :
        y \in Years, m \in 1..12, d \in 1..31, h \in 0..23,
        mi \in {0, 29, 30, 59}, fr \in {0, 1}}

InitGate ==
    /\ pc = "gate_idle"
    /\ now \in {t \in ClockReadings : ValidDate(t.year, t.month, t.day)}
    /\ window = NoWindow
    /\ gate = NoGate
    /\ auth_token = 0
    /\ local = {}
    /\ remote = [k \in AllKeys |-> 0]
    /\ vol = 1
    /\ verify_result = "none"
    /\ listing = NoListing
    /\ local0 = local
    /\ remote0 = remote
    /\ NoUpload
    /\ NoCodec

\* active_upload_period(now)
GateCheckWindow ==
    /\ pc = "gate_idle"
    /\ window' = active_upload_period(now)
    /\ pc' = IF window'.raised THEN "crash_window" ELSE "window_done"
    /\ UNCHANGED <<auth_token, local, remote, vol, cleanupVars, local0, remote0, codecVars, now, gate, uploadVars>>

\* pause_if_out_of_upload_period()
GateCall ==
    /\ pc = "gate_idle"
    /\ gate' = pause_if_out_of_upload_period(now)
    /\ now' = gate'.wake
    /\ pc' = IF gate'.raised THEN "crash_gate" ELSE "gate_done"
    /\ UNCHANGED <<auth_token, local, remote, vol, cleanupVars, local0, remote0, codecVars, window, uploadVars>>

NextGate == GateCheckWindow \/ GateCall

SpecGate == InitGate /\ [][NextGate]_vars

\* The active window: from the start hour of one day to the end hour of the
\* next, the first included and the second not.
InWindow(t) ==
    t.hour >= ACTIVE_PERIOD_BEGIN_HOUR \/ t.hour < ACTIVE_PERIOD_END_HOUR

\* C9: on every calendar date active_upload_period returns a boolean, true
\* exactly when the instant lies in the active window (so true at the start
\* hour, false at the end hour and false a minute before the start hour).
C9_ActiveWindow ==
    pc \in {"window_done", "crash_window"} =>
        ~window.raised /\ (window.value <=> InWindow(now))

\* What holds of active_upload_period: it raises exactly on the first day of
\* a month before the start hour and on the last day from the start hour on,
\* and returns the right boolean otherwise.
WindowRaises(t) ==
    \/ (t.day = 1 /\ t.hour < ACTIVE_PERIOD_BEGIN_HOUR)
    \/ (t.day = DaysInMonth(t.year, t.month) /\ t.hour >= ACTIVE_PERIOD_BEGIN_HOUR)

ActiveWindowExceptMonthEnds ==
    pc \in {"window_done", "crash_window"} =>
        /\ window.raised <=> WindowRaises(now)
        /\ ~window.raised => (window.value <=> InWindow(now))

\* C10: the gate never fails; it returns True, after sleeping until the
\* next start hour, exactly when now + ESTIMATED_UPLOAD_TIME lies outside the
\* active window, and returns False without sleeping otherwise.
C10_Gate ==
    pc \in {"gate_done", "crash_gate"} =>
        /\ ~gate.raised
        /\ gate.value <=> ~InWindow(PlusSeconds(gate.at, ESTIMATED_UPLOAD_TIME * 60))
        /\ gate.value =>
              /\ gate.slept >= 0
              /\ NotAfter(gate.at, gate.wake)
              /\ gate.wake = datetime(gate.wake.year, gate.wake.month, gate.wake.day,
                                      ACTIVE_PERIOD_BEGIN_HOUR)
              /\ Seconds(gate.wake) - Seconds(gate.at) <= 86400
        /\ ~gate.value => gate.slept = -1 /\ gate.wake = gate.at

\* What holds of the gate: it raises exactly when active_upload_period does on
\* now + ESTIMATED_UPLOAD_TIME, and otherwise pauses exactly outside the window,
\* waking less than a second before the start hour when the clock reading has
\* microseconds (timedelta.seconds drops them).
GateExceptMonthEnds ==
    pc \in {"gate_done", "crash_gate"} =>
        LET due == PlusSeconds(gate.at, ESTIMATED_UPLOAD_TIME * 60)
            start == datetime(gate.at.year, gate.at.month, gate.at.day,
                              ACTIVE_PERIOD_BEGIN_HOUR)
        IN  /\ gate.raised <=> WindowRaises(due)
            /\ ~gate.raised =>
                  /\ gate.value <=> ~InWindow(due)
                  /\ gate.value =>
                        IF gate.at.frac = 0 THEN gate.wake = start
                        ELSE Before(gate.wake, start)
                             /\ Seconds(start) - Seconds(gate.wake) = 1


(***************************************************************************)
(* encrypt_archives(config) followed by decrypt_archives(config), lines    *)
(* 166-222, on the bytes of the files.                                     *)
(***************************************************************************)
\* The parts an earlier run of this month left of an archive x it split with
\* encrypted_file_part_size 1: nothing deletes them before the next run.
EarlierParts(x) ==
    [n \in 1..MaxLen |->
        IF n <= Len(x) THEN PartFileOf(encrypt(1, 0, <<x[n]>>)) ELSE NoPartFile]

\* The first volume's archive is any byte string or cannot be opened, and its
\* directory is fresh or holds the parts of an earlier run; the other
\* volumes have a one-byte archive and no part.
InitCodec ==
    /\ pc = "enc_start"
    /\ secret_key = 1
    /\ encrypted_file_part_size \in 1..MaxChunk
    /\ \E f \in {NoFile} \cup {[exists |-> TRUE, bytes |-> x] : x \in ByteStrings} :
           archive_file = [v \in Volumes |->
                              IF v = volumes[1] THEN f ELSE [exists |-> TRUE, bytes |-> <<1>>]]
    /\ \E earlier \in {<<>>, [n \in 1..MaxLen |-> 1]} :
           part_file = [v \in Volumes |->
                           IF v = volumes[1] THEN EarlierParts(earlier) ELSE NoParts]
    /\ part_number = 1
    /\ tell = 0
    /\ error = NoError
    /\ source = [v \in Volumes |-> <<>>]
    /\ emitted = [v \in Volumes |-> <<>>]
    /\ written = [v \in Volumes |-> <<>>]
    /\ opened = [v \in Volumes |-> <<>>]
    /\ auth_token = 0
    /\ local = {}
    /\ remote = [k \in AllKeys |-> 0]
    /\ vol = 1
    /\ verify_result = "none"
    /\ listing = NoListing
    /\ local0 = local
    /\ remote0 = remote
    /\ now = NoTime
    /\ window = NoWindow
    /\ gate = NoGate
    /\ NoUpload

otherVars == <<auth_token, local, remote, cleanupVars, local0, remote0, clockVars, uploadVars>>

\* lines 169-173: open and mmap the archive of the volume at hand.  open
\* raises when the file cannot be opened, mmap when it is empty; neither is
\* caught.
EncOpen ==
    /\ pc = "enc_start"
    /\ LET v == volumes[vol]
           f == archive_file[v]
       IN  IF ~f.exists
           THEN /\ pc' = "crash_encrypt"
                /\ error' = Exception("FileNotFoundError", 0)
                /\ UNCHANGED <<part_number, tell, source>>
           ELSE IF Len(f.bytes) = 0
           THEN /\ pc' = "crash_encrypt"
                /\ error' = Exception("ValueError", 0)
                /\ UNCHANGED <<part_number, tell, source>>
           ELSE /\ pc' = "enc_loop"
                /\ part_number' = 1
                /\ tell' = 0
                /\ source' = [source EXCEPT ![v] = f.bytes]
                /\ error' = error
    /\ UNCHANGED <<vol, secret_key, encrypted_file_part_size, archive_file, part_file,
                   emitted, written, opened, otherVars>>

\* lines 174-190: one pass of the while-loop.
EncPart ==
    /\ pc = "enc_loop"
    /\ LET v == volumes[vol]
           bytes == archive_file[v].bytes
           last_byte == Len(bytes) - 1
       IN  /\ tell <= last_byte
           /\ \E nonce \in Nonces :
                  LET plaintext == read(bytes, tell, encrypted_file_part_size)
                      encrypted_volume_contents_part == encrypt(secret_key, nonce, plaintext)
                  IN  /\ part_file' = [part_file EXCEPT ![v][part_number] =
                                           PartFileOf(encrypted_volume_contents_part)]
                      /\ tell' = tell + Len(plaintext)
                      /\ emitted' = [emitted EXCEPT ![v] = Append(@, plaintext)]
           /\ part_number' = part_number + 1
    /\ UNCHANGED <<pc, vol, secret_key, encrypted_file_part_size, archive_file, error,
                   source, written, opened, otherVars>>

\* line 174 when the archive is exhausted: on to the next volume (line 169).
EncNext ==
    /\ pc = "enc_loop"
    /\ tell > Len(archive_file[volumes[vol]].bytes) - 1
    /\ IF vol < Len(volumes)
       THEN vol' = vol + 1 /\ pc' = "enc_start"
       ELSE vol' = 1 /\ pc' = "enc_done"
    /\ UNCHANGED <<secret_key, encrypted_file_part_size, archive_file, part_file,
                   part_number, tell, error, source, emitted, written, opened, otherVars>>

\* Every part on disk verifies under the key of the run that wrote it.
Untampered ==
    \A v \in Volumes : \A n \in 1..MaxLen :
        part_file[v][n].exists => ~decrypt(1, part_file[v][n].cipher).raised

\* Between the two runs a byte of one part is flipped.
Tamper ==
    /\ pc = "enc_done"
    /\ Untampered
    /\ \E v \in Volumes : \E n \in 1..MaxLen :
           /\ part_file[v][n].exists
           /\ \E j \in 1..Len(part_file[v][n].cipher.body) :
                  part_file' = [part_file EXCEPT ![v][n].cipher.body[j] = Xor(@, 1)]
    /\ UNCHANGED <<pc, vol, secret_key, encrypted_file_part_size, archive_file,
                   part_number, tell, error, source, emitted, written, opened, otherVars>>

\* Between the two runs one of the parts just written goes missing.
LosePart ==
    /\ pc = "enc_done"
    /\ \A v \in Volumes : \A n \in 1..Len(emitted[v]) : part_file[v][n].exists
    /\ \E v \in Volumes : \E n \in 1..Len(emitted[v]) :
           part_file' = [part_file EXCEPT ![v][n] = NoPartFile]
    /\ UNCHANGED <<pc, vol, secret_key, encrypted_file_part_size, archive_file,
                   part_number, tell, error, source, emitted, written, opened, otherVars>>

\* Between the two runs the archives are removed from the directory.
ClearDestination ==
    /\ pc = "enc_done"
    /\ \E v \in Volumes : archive_file[v].exists
    /\ archive_file' = [v \in Volumes |-> NoFile]
    /\ UNCHANGED <<pc, vol, secret_key, encrypted_file_part_size, part_file,
                   part_number, tell, error, source, emitted, written, opened, otherVars>>

\* decrypt_archives is called by a process whose configuration holds some
\* key (lines 199-203).
DecStart ==
    /\ pc = "enc_done"
    /\ secret_key' \in Keys
    /\ vol' = 1
    /\ part_number' = 1
    /\ pc' = "dec_loop"
    /\ UNCHANGED <<encrypted_file_part_size, archive_file, part_file, tell, error,
                   source, emitted, written, opened, otherVars>>

\* lines 204-222: one pass of the while-loop.  The CryptoError of box.decrypt
\* is not caught; the plaintext is appended to the archive (mode 'ab').
DecPart ==
    /\ pc = "dec_loop"
    /\ LET v == volumes[vol]
       IN  /\ isfile(part_file[v], part_number)
           /\ opened' = [opened EXCEPT ![v] = Append(@, part_number)]
           /\ LET volume_contents_part == decrypt(secret_key, part_file[v][part_number].cipher)
              IN  IF volume_contents_part.raised
                  THEN /\ pc' = "crash_decrypt"
                       /\ error' = Exception("CryptoError", 0)
                       /\ UNCHANGED <<archive_file, written, part_number>>
                  ELSE /\ archive_file' = [archive_file EXCEPT ![v] =
                              [exists |-> TRUE, bytes |-> @.bytes \o volume_contents_part.value]]
                       /\ written' = [written EXCEPT ![v] = @ \o volume_contents_part.value]
                       /\ part_number' = part_number + 1
                       /\ UNCHANGED <<pc, error>>
    /\ UNCHANGED <<vol, secret_key, encrypted_file_part_size, part_file, tell,
                   source, emitted, otherVars>>

\* line 204 at the first part number with no file: on to the next volume.
DecNext ==
    /\ pc = "dec_loop"
    /\ ~isfile(part_file[volumes[vol]], part_number)
    /\ IF vol < Len(volumes)
       THEN vol' = vol + 1 /\ pc' = pc
       ELSE vol' = 1 /\ pc' = "dec_done"
    /\ part_number' = 1
    /\ UNCHANGED <<secret_key, encrypted_file_part_size, archive_file, part_file,
                   tell, error, source, emitted, written, opened, otherVars>>

NextCodec ==
    \/ EncOpen
    \/ EncPart
    \/ EncNext
    \/ Tamper
    \/ LosePart
    \/ ClearDestination
    \/ DecStart
    \/ DecPart
    \/ DecNext

SpecCodec == InitCodec /\ [][NextCodec]_vars

(***************************************************************************)
(* Properties of the codec.                                                *)
(***************************************************************************)
\* decrypt_archives ran to its end under the key encrypt_archives used, on
\* parts nobody touched in between.
PartsKept ==
    \A v \in Volumes : \A n \in 1..Len(emitted[v]) : part_file[v][n].exists

Decoded == pc = "dec_done" /\ secret_key = 1 /\ Untampered /\ PartsKept

\* The directory holds no part of volume v numbered above those the last
\* encrypt_archives wrote.
NoLeftover(v) ==
    \A n \in 1..MaxLen : part_file[v][n].exists => n <= Len(emitted[v])

\* C11: whatever archive encrypt_archives ran on, decrypt_archives with the
\* same key reconstructs exactly the bytes of the archive, in order.
C11_RoundTrip ==
    Decoded => \A v \in Volumes : written[v] = source[v]

\* What holds of C11: when the directory holds no part numbered above those
\* encrypt_archives wrote, decrypt_archives with the same key appends exactly
\* the bytes of the (non-empty) archive, in order, for every part size; the
\* destination holds them after whatever it held before.
RoundTripWithoutLeftovers ==
    Decoded =>
        \A v \in Volumes :
            NoLeftover(v) =>
                /\ written[v] = source[v]
                /\ source[v] # <<>>
                /\ archive_file[v].bytes \in {written[v], source[v] \o written[v]}

\* An archive of several parts, one of them short, went through both runs and
\* came back byte for byte into a cleared directory.
RoundTripDone ==
    /\ Decoded
    /\ \A v \in Volumes : NoLeftover(v)
    /\ Len(emitted[volumes[1]]) >= 2
    /\ \E n \in 1..Len(emitted[volumes[1]]) :
           Len(emitted[volumes[1]][n]) < encrypted_file_part_size
    /\ \E j \in 1..Len(source[volumes[1]]) : source[volumes[1]][j] # source[volumes[1]][1]
    /\ archive_file[volumes[1]].bytes = source[volumes[1]]

\* encrypt_archives is through with volume v.
Encoded(v) ==
    \/ pc \in {"enc_done", "dec_loop", "dec_done", "crash_decrypt"}
    \/ pc \in {"enc_start", "enc_loop", "crash_encrypt"} /\ Index(volumes, v) < vol
    \/ pc = "enc_loop" /\ v = volumes[vol] /\ tell > Len(source[v]) - 1

Ceil(a, b) == (a + b - 1) \div b

\* C12: an archive of L bytes encoded with part size C gives exactly ceil(L/C)
\* parts, numbered from 1 with no gap; every part but the last carries C
\* bytes and the last carries between 1 and C; the parts carry the bytes of
\* the archive in order.  An empty archive gives no part.
C12_ChunkCount ==
    /\ \A v \in Volumes :
           Encoded(v) =>
               LET L == Len(source[v])
                   C == encrypted_file_part_size
                   count == Len(emitted[v])
               IN  /\ count = Ceil(L, C)
                   /\ \A n \in 1..(count - 1) : Len(emitted[v][n]) = C
                   /\ count > 0 => Len(emitted[v][count]) \in 1..C
                   /\ pc = "enc_done" /\ Untampered /\ PartsKept =>
                          \A n \in 1..count :
                              /\ isfile(part_file[v], n)
                              /\ decrypt(secret_key, part_file[v][n].cipher).value = emitted[v][n]
    /\ pc = "crash_encrypt" /\ error.type = "ValueError" =>
           /\ Len(archive_file[volumes[vol]].bytes) = 0
           /\ emitted[volumes[vol]] = <<>>

\* An archive whose length is a multiple of the part size, encoded into more
\* than one part.
C12_Witness ==
    /\ pc = "enc_done"
    /\ Len(source[volumes[1]]) = 2 * encrypted_file_part_size
    /\ Len(emitted[volumes[1]]) = 2

\* C21: when encrypt_archives is through with a volume, the part files of
\* the volume and period on disk are exactly those numbered 1..ceil(L/C) of
\* the archive it just read, also when an earlier run of the period had
\* written more parts.
C21_OnlyCurrentParts ==
    \A v \in Volumes :
        Encoded(v) /\ pc \in {"enc_start", "enc_loop", "enc_done"} /\ PartsKept =>
            \A n \in 1..MaxLen :
                part_file[v][n].exists <=>
                    n <= Ceil(Len(source[v]), encrypted_file_part_size)

\* What the code does: the parts of the earlier run numbered above the new
\* ones are still on disk, under their old contents.
EarlierPartsSurvive ==
    [][\A v \in Volumes : \A n \in 1..MaxLen :
           pc \in {"enc_start", "enc_loop"} /\ part_file[v][n].exists =>
               /\ part_file'[v][n].exists
               /\ part_file'[v][n] # part_file[v][n] =>
                      v = volumes[vol] /\ n = part_number]_vars

\* The plaintext of parts 1..n of volume v under key.
RECURSIVE PlainUpTo(_, _, _)
PlainUpTo(v, key, n) ==
    IF n = 0 THEN <<>>
    ELSE PlainUpTo(v, key, n - 1) \o decrypt(key, part_file[v][n].cipher).value

\* decrypt_archives ended on part k = part_number of the volume at hand, whose
\* tag did not verify; the parts before it did.
FailedAtPart ==
    /\ pc = "crash_decrypt"
    /\ decrypt(secret_key, part_file[volumes[vol]][part_number].cipher).raised

\* C13: when part k fails its authentication check, the decode fails at part k
\* with an error that names k, has written the plaintext of parts 1..k-1 and
\* nothing of part k or later, and leaves what it wrote in the destination.
C13_CorruptionDetection ==
    pc = "crash_decrypt" =>
        LET v == volumes[vol]
            k == part_number
        IN  /\ FailedAtPart
            /\ error.part = k
            /\ opened[v] = [n \in 1..k |-> n]
            /\ written[v] = PlainUpTo(v, secret_key, k - 1)

\* What holds of C13: the same without the part number in the error, which is
\* the CryptoError of box.decrypt as the library raised it.
FailsAtPartKeepsPrefix ==
    pc = "crash_decrypt" =>
        LET v == volumes[vol]
            k == part_number
        IN  /\ FailedAtPart
            /\ error = Exception("CryptoError", 0)
            /\ opened[v] = [n \in 1..k |-> n]
            /\ written[v] = PlainUpTo(v, secret_key, k - 1)
            /\ \E before \in {<<>>, source[v]} : archive_file[v].bytes = before \o written[v]

\* The first part number of volume v with no file.
FirstMissing(v) ==
    CHOOSE k \in 1..(MaxLen + 1) :
        /\ k <= MaxLen => ~part_file[v][k].exists
        /\ \A n \in 1..(k - 1) : part_file[v][n].exists

\* decrypt_archives is through with volume v.
DecodedVolume(v) ==
    \/ pc = "dec_done"
    \/ pc \in {"dec_loop", "crash_decrypt"} /\ Index(volumes, v) < vol

\* C18: decrypt_archives opens the parts of a volume in ascending order from
\* 1 and goes on to the next volume, with no error, at the first number k
\* that has no file: it has then written the plaintext of parts 1..k-1 and
\* has opened no part numbered above k, whether or not one exists.  It never
\* opens a number that has no file.
C18_StopsAtFirstMissing ==
    /\ \A v \in Volumes :
           DecodedVolume(v) =>
               LET k == FirstMissing(v)
               IN  /\ opened[v] = [n \in 1..(k - 1) |-> n]
                   /\ written[v] = PlainUpTo(v, secret_key, k - 1)
    /\ \A v \in Volumes : \A n \in 1..Len(opened[v]) :
           opened[v][n] = n /\ part_file[v][n].exists
    /\ pc = "dec_done" => error = NoError

\* Part 2 of three is missing: part 1 alone was decoded, part 3 was never
\* opened, and the run went on to its end.
C18_Witness ==
    /\ pc = "dec_done"
    /\ FirstMissing(volumes[1]) = 2
    /\ part_file[volumes[1]][3].exists
    /\ opened[volumes[1]] = <<1>>
    /\ written[volumes[1]] # <<>>

(***************************************************************************)
(* Properties of the pruning of old files (lines 444-448 and 473-484).     *)
(***************************************************************************)
\* The period tag d is as old as the one the pruning names, or older.
AgedOut(d) == Index(Dates, d) <= Index(Dates, THREE_MONTHS_AGO)

\* C14: when verify_and_cleanup has run to its end, no local archive whose
\* period tag is as old as the pruned period or older remains.
C14_PruneOld ==
    pc = "done" => \A f \in local : f.kind = "archive" => ~AgedOut(f.date)

\* What the pruning does: it removes every local file of the one period
\* THREE_MONTHS_AGO and no file of any other period, older ones included.
PrunesOnePeriod ==
    pc = "done" =>
        /\ \A f \in local : f.date # THREE_MONTHS_AGO
        /\ \A f \in local0 : f.date \notin {THREE_MONTHS_AGO, THISMONTH} => f \in local

(***************************************************************************)
(* Properties of the error handling of the remote calls.                   *)
(***************************************************************************)
\* The run was ended by b2_authorize_account: sys.exit(1) on a status other
\* than 200, or the exception of requests.get, which nothing catches.
EndedByAuthorize == pc \in {"exit_auth", "crash_auth"}

\* C15: no non-success response and no connection error of a remote call
\* ends the process.
C15_TransportErrorsNeverCrash == ~EndedByAuthorize

\* What holds of C15: the run is ended by a remote call only from one of the
\* two b2_authorize_account calls; the failures of b2_get_upload_url and
\* b2_upload_file are logged and the run goes on.
OnlyAuthorizeEndsTheRun ==
    [][/\ EndedByAuthorize' => pc \in {"up_start", "up_reauth"}
       /\ pc \in {"up_get_url", "up_upload"} =>
              pc' \in {"up_get_url", "up_upload", "up_backoff", "up_returned"}]_vars

(***************************************************************************)
(* Properties of the upload target (lines 364-385).                        *)
(***************************************************************************)
\* C19: every b2_upload_file call posts to the upload URL and token that
\* b2_get_upload_url returned in the same iteration, so no target is used by
\* two attempts of a call; an iteration whose b2_get_upload_url failed makes
\* no upload, counts as an attempt, and is followed by the backoff of its
\* number like any other failed iteration.
C19_FreshTargetPerAttempt ==
    [][/\ pc = "up_upload" => target = i + 1 /\ used < target
       /\ pc = "up_upload" /\ pc' # pc => used' = target
       /\ pc = "up_get_url" /\ pc' # pc =>
              /\ attempts' = attempts + 1
              /\ target' = 0 =>
                     /\ pc' = "up_backoff"
                     /\ remote' = remote /\ used' = used /\ wins' = wins
       /\ pc = "up_backoff" /\ pc' # pc =>
              /\ i' = i + 1
              /\ sleeps' = IF i < UPLOAD_ATTEMPTS - 1
                           THEN Append(sleeps, BACKOFF_MODIFIER * i * i) ELSE sleeps
              /\ pc' = IF i + 1 < UPLOAD_ATTEMPTS THEN "up_get_url" ELSE "up_returned"]_vars

\* The first two iterations got no upload URL and made no upload, slept 0 and
\* 225 seconds, and the third posts to the URL it got itself.
C19_Witness ==
    /\ pc = "up_upload"
    /\ attempts = 3
    /\ used = 0
    /\ target = 3
    /\ sleeps = <<0, BACKOFF_MODIFIER>>

(***************************************************************************)
(* The listing of line 393 on the names of parts with any number of        *)
(* digits: an archive of n bytes has n / encrypted_file_part_size parts,   *)
(* rounded up, and nothing bounds n.                                       *)
(***************************************************************************)
\* Part numbers on either side of each change in the number of digits.
PartNumbers == {1, 2, 9, 10, 11, 99, 100, 101, 999, 1000, 1001}

\* rf"{thismonth}-{volume}\.tar\.gz\.enc.part\d+$" on names of these numbers.
PartPatternOf(d, v, numbers) == {Part(d, v, n) : n \in numbers}

\* The directory is given by two or three of the parts of the first volume:
\* sorted() orders them among themselves whatever else the directory holds.
InitNames ==
    /\ pc = "ls_start"
    /\ \E held \in SUBSET PartNumbers :
           /\ Cardinality(held) \in {2, 3}
           /\ local = UNION {{Part(THISMONTH, volumes[1], n), Sha1(THISMONTH, volumes[1], n)} :
                                n \in held}
    /\ auth_token = 0
    /\ remote = [k \in AllKeys |-> 0]
    /\ vol = 1
    /\ verify_result = "none"
    /\ listing = NoListing
    /\ local0 = local
    /\ remote0 = remote
    /\ now = NoTime
    /\ window = NoWindow
    /\ gate = NoGate
    /\ NoUpload
    /\ NoCodec

\* lines 393-394: the list the inner for-loop of upload_archive_files takes
\* its file_part_names from.
ListParts ==
    /\ pc = "ls_start"
    /\ parts' = list_files_matching(PartPatternOf(THISMONTH, volumes[vol], PartNumbers), local)
    /\ pc' = "ls_done"
    /\ UNCHANGED <<auth_token, local, remote, vol, cleanupVars, local0, remote0, codecVars,
                   clockVars, disable_pause, callVars, invoked, sessionVars, gated, lost>>

NextNames == ListParts

SpecNames == InitNames /\ [][NextNames]_vars

\* C17: the part names come out of the listing in the order of their
\* sequence numbers, whatever the number of parts.
C17_NamesSortInSequenceOrder ==
    pc = "ls_done" =>
        \A m, n \in 1..Len(parts) : m < n => parts[m].part < parts[n].part

\* What holds of C17: the names of parts numbered up to 999, which have three
\* digits, come out in the order of their numbers, and every part is listed.
ThreeDigitNamesSortInSequenceOrder ==
    pc = "ls_done" =>
        /\ Range(parts) = {f \in local : f.kind = "part"}
        /\ \A m, n \in 1..Len(parts) :
               m < n /\ parts[m].part <= 999 /\ parts[n].part <= 999 =>
                   parts[m].part < parts[n].part

(***************************************************************************)
(* Properties of the length of a run of upload_archive_files.              *)
(***************************************************************************)
\* Every part of the directory has its .sha1 file, so get_file_info reads it.
AllReadable ==
    \A f \in local : f.kind = "part" => Sha1(f.date, f.volume, f.part) \in local

\* C22: whatever b2_get_upload_url and b2_upload_file answer, a run whose
\* authorizations succeed makes no more than UPLOAD_ATTEMPTS attempts for a
\* part, calls upload_archive_file_part at most once for a part, so that it
\* makes no more than UPLOAD_ATTEMPTS attempts times the number of local
\* parts, and when it has ended it has made an attempt for every part.
C22_EveryPartTriedWithinBudget ==
    /\ InCall => attempts <= UPLOAD_ATTEMPTS
    /\ InvokedOnce
    /\ IsPrefix(invoked, PartsFrom(1))
    /\ pc = "up_returned" => attempts >= 1
    /\ (~Running /\ ~EndedByAuthorize /\ AllReadable) =>
           pc = "done" /\ invoked = PartsFrom(1)

\* What holds of C22: the same, but for the runs the gate ended with the
\* ValueError of active_upload_period.
TriedWithinBudgetUnlessGateRaises ==
    /\ InCall => attempts <= UPLOAD_ATTEMPTS
    /\ InvokedOnce
    /\ IsPrefix(invoked, PartsFrom(1))
    /\ pc = "up_returned" => attempts >= 1
    /\ (~Running /\ ~EndedByAuthorize /\ AllReadable /\ pc # "crash_gate") =>
           pc = "done" /\ invoked = PartsFrom(1)
    /\ pc = "crash_gate" => gate.raised /\ ~disable_pause

\* The run with every step that can be taken eventually taken: each request
\* is answered and each sleep returns.
SpecUploadFair == SpecUpload /\ WF_vars(NextUpload)

\* Every such run comes to an end.
UploadTerminates == <>(~Running)

(***************************************************************************)
(* Properties of the handling of unreadable files.                         *)
(***************************************************************************)
\* C16: when the archive of a volume cannot be opened, encrypt_archives
\* leaves that volume and goes on with the next one.
C16_UnreadableSkipsToNextVolume ==
    [][pc = "enc_start" /\ ~archive_file[volumes[vol]].exists /\ vol < Len(volumes) =>
           pc' = "enc_start" /\ vol' = vol + 1]_vars

\* The same for upload_archive_files: when get_file_info cannot read the part
\* at hand or its .sha1 file, the run goes on with the next volume.
UnreadablePartSkipsToNextVolume ==
    [][pc = "up_file_info" /\ get_file_info(local, Head(parts)) = "raised"
       /\ vol < Len(volumes) =>
           pc' = "up_volume" /\ vol' = vol + 1]_vars

\* What the code does: the exception of get_file_info ends the run, and
\* upload_archive_file_part is called for no later part of any volume.
UnreadablePartEndsTheRun ==
    pc = "crash_file" =>
        /\ get_file_info(local, Head(parts)) = "raised"
        /\ invoked[Len(invoked)] = <<volumes[vol], Head(parts)>>
        /\ Len(invoked) < Len(PartsFrom(1)) \/ invoked = PartsFrom(1)

\* What the code does: an archive that cannot be opened, or is empty, ends the
\* run there, and no later volume is encoded.
UnreadableEndsTheRun ==
    pc = "crash_encrypt" =>
        /\ error.type \in {"FileNotFoundError", "ValueError"}
        /\ \A k \in vol..Len(volumes) : emitted[volumes[k]] = <<>>

=============================================================================
